---- MODULE Spec2Model ----
(***************************************************************************)
(* Model of hetzner_dns_api: the zone page cursor (zone.py, ZoneIterator   *)
(* and DnsZone.all), the timestamp codec (decoding.py, types.py) and the   *)
(* entity views (zone.py DnsZone, records.py, base.py).                    *)
(*                                                                         *)
(* Text is modelled as a sequence of one-character strings, so that        *)
(* str()/int() and strftime()/strptime() are real conversions.             *)
(***************************************************************************)
EXTENDS Integers, Sequences, FiniteSets, TLC

VARIABLES srv, client, gen, args, it, response, current, sent, replies,
          yielded, last, stopped, calls,
          host, typ, arg, obj, wire, out, cpc,
          call, pending, http, answer, result, vpc,
          heap, builders, cursors, acted

cursorVars == <<srv, client, gen, args, it, response, current, sent, replies,
                yielded, last, stopped, calls>>

codecVars == <<host, typ, arg, obj, wire, out, cpc>>

viewsVars == <<call, pending, http, answer, result, vpc>>

ownVars == <<heap, builders, cursors, acted>>

vars == <<cursorVars, codecVars, viewsVars, ownVars>>

(***************************************************************************)
(* Bounds of the exploration.                                              *)
(***************************************************************************)
\* most zones the list endpoint holds
MaxN == 4
\* largest per_page the endpoint serves
MaxPerPage == 2
\* most consumer calls (next() on the cursor or on the generator)
MaxCalls == 4
\* most zones in one page of a server that is not bound to a zone list
MaxBatch == 1
\* largest page / last_page value such a server reports (it reports page 1
\* or this one, and last_page 0 or this one)
MaxPageNo == 2

(***************************************************************************)
(* Text helpers: Python's str(int) and int(str) on decimal text.           *)
(***************************************************************************)
DigitChars == <<"0", "1", "2", "3", "4", "5", "6", "7", "8", "9">>

IsDigit(c) == \E d \in 1..10 : DigitChars[d] = c

DigitVal(c) == (CHOOSE d \in 1..10 : DigitChars[d] = c) - 1

RECURSIVE str(_)
str(n) == IF n < 10 THEN <<DigitChars[n + 1]>>
          ELSE str(n \div 10) \o <<DigitChars[(n % 10) + 1]>>

RECURSIVE int(_)
int(s) == IF s = <<>> THEN 0
          ELSE 10 * int(SubSeq(s, 1, Len(s) - 1)) + DigitVal(s[Len(s)])

Max(a, b) == IF a >= b THEN a ELSE b

\* math.ceil(n / p) for n >= 0, p > 0
Ceil(n, p) == (n + p - 1) \div p

(***************************************************************************)
(* The HTTP side: URLs, the client's base_url, the list endpoint.          *)
(***************************************************************************)
Origin == "https://dns.hetzner.com"

\* path of BASE_API_URL
ApiPrefix == <<"api", "v1">>

Foo == <<"f", "o", "o">>

\* httpx.Client._merge_url: a relative url is appended to base_url
_merge_url(c, url) ==
    IF url.origin = ""
    THEN [origin |-> c.base_url.origin,
          path |-> c.base_url.path \o url.path,
          params |-> url.params]
    ELSE url

\* httpx.Client.build_request: merge with base_url, then merge params into
\* the query (keys of params override the keys the url already carries)
build_request(c, method, url, params) ==
    LET merged == _merge_url(c, url)
        keys == DOMAIN merged.params \cup DOMAIN params
    IN [method |-> method,
        url |-> [merged EXCEPT !.params =
                   [k \in keys |-> IF k \in DOMAIN params THEN params[k]
                                   ELSE merged.params[k]]]]

NoParams == [k \in {} |-> <<>>]

RelativeUrl(path) == [origin |-> "", path |-> path, params |-> NoParams]

\* the zones the endpoint holds are numbered 1..N
Block(k, N, P) ==
    LET lo == (k - 1) * P + 1
        hi == IF k * P < N THEN k * P ELSE N
    IN [i \in 1..(IF hi >= lo THEN hi - lo + 1 ELSE 0) |-> lo + i - 1]

RequestedPage(request) ==
    IF "page" \in DOMAIN request.url.params /\ request.url.params["page"] # <<>>
    THEN int(request.url.params["page"]) ELSE 1

\* tests/test_api.py all_handler: the list endpoint of a server holding N zones
PagedBody(request) ==
    LET k == RequestedPage(request)
    IN [kind |-> "ok",
        zones |-> Block(k, srv.N, srv.P),
        meta |-> [page |-> k, per_page |-> srv.P,
                  last_page |-> Ceil(srv.N, srv.P),
                  total_entries |-> srv.N]]

\* a body that does not decode as DnsZoneListResponse: valid JSON of another
\* shape (msgspec.ValidationError) or no JSON at all (msgspec.DecodeError)
BadBodies == {[kind |-> k, zones |-> <<>>,
               meta |-> [page |-> 0, per_page |-> 0, last_page |-> 0,
                         total_entries |-> 0]] : k \in {"mismatch", "malformed"}}

\* no answer at all: client.send / client.get raises httpx.TransportError
NoAnswer == [kind |-> "transport", zones |-> <<>>,
             meta |-> [page |-> 0, per_page |-> 0, last_page |-> 0,
                       total_entries |-> 0]]

\* any zone list body, for a server that is not bound to a fixed zone list,
\* which may also fail to answer
AnyBodies ==
    {[kind |-> "ok",
      zones |-> [i \in 1..n |-> i],
      meta |-> [page |-> p, per_page |-> MaxBatch, last_page |-> lp,
                total_entries |-> t]] :
        n \in 0..MaxBatch, p \in {1, MaxPageNo}, lp \in {0, MaxPageNo},
        t \in 0..1}
    \cup BadBodies \cup {NoAnswer}

EndpointPath == srv.prefix \o <<"zones">>

\* the bodies the server may answer a request with
ServerBodies(request) ==
    IF srv.mode = "any" THEN AnyBodies
    ELSE IF request.url.path = EndpointPath THEN {PagedBody(request)}
    ELSE BadBodies

(***************************************************************************)
(* ZoneIterator (zone.py).  self is the pair of fields the cursor mutates: *)
(* [response |-> [request, body], current |-> list of zones].              *)
(***************************************************************************)
\* the exception decoding a body as DnsZoneListResponse ends with:
\* extract_content wraps msgspec.ValidationError in HetznerApiError and lets
\* the msgspec.DecodeError of a body that is no JSON through
extract_error(body) ==
    CASE body.kind = "ok" -> "none"
      [] body.kind = "mismatch" -> "HetznerApiError"
      [] OTHER -> "DecodeError"

\* the exception fetching a page ends with: the one of the send, else the
\* one of extract_content
fetch_error(body) ==
    IF body.kind = "transport" THEN "TransportError" ELSE extract_error(body)

extract_content(body) == body.zones

\* the stored response passed extract_content, so it decodes and its
\* pagination is a PageMeta (a required field, never None)
extract_meta(resp) == resp.body.meta

\* resolve_query starting from an empty query: the filter is lost
resolve_query_page_only(resp) ==
    LET query == resp.request.url.params
        next_page == IF "page" \in DOMAIN query /\ query["page"] # <<>>
                     THEN int(query["page"]) + 1
                     ELSE 2
    IN [k \in {"page"} |-> str(next_page)]

resolve_query(resp) ==
    LET query == resp.request.url.params
        next_page == IF "page" \in DOMAIN query /\ query["page"] # <<>>
                     THEN int(query["page"]) + 1
                     ELSE 2
    IN [k \in DOMAIN query \cup {"page"} |->
           IF k = "page" THEN str(next_page) ELSE query[k]]

_build_next_request(self, c) ==
    LET params == resolve_query(self.response)
        current_request == self.response.request
        next_url == IF c.base_url.set
                    THEN RelativeUrl(current_request.url.path)
                    ELSE current_request.url
    IN build_request(c, current_request.method, next_url, params)

\* can_iter that also continues from the last page
can_iter_inclusive(metadata) == metadata.page <= metadata.last_page

can_iter(metadata) == metadata.page < metadata.last_page

\* get_next that stores the response before it decodes it
get_next_store_first(self, c, body) ==
    LET metadata == extract_meta(self.response)
        request == _build_next_request(self, c)
    IN IF ~can_iter(metadata)
       THEN [self |-> self, sent |-> <<>>, replies |-> <<>>, raised |-> "none"]
       ELSE IF body.kind = "transport"
       THEN [self |-> self, sent |-> <<request>>, replies |-> <<body.kind>>,
             raised |-> fetch_error(body)]
       ELSE IF fetch_error(body) # "none"
       THEN [self |-> [self EXCEPT
                          !.response = [request |-> request, body |-> body]],
             sent |-> <<request>>, replies |-> <<body.kind>>,
             raised |-> fetch_error(body)]
       ELSE [self |-> [response |-> [request |-> request, body |-> body],
                       current |-> extract_content(body)],
             sent |-> <<request>>, replies |-> <<body.kind>>, raised |-> "none"]

\* body is the answer the server gives if the request is sent
get_next(self, c, body) ==
    LET metadata == extract_meta(self.response)
        request == _build_next_request(self, c)
    IN IF ~can_iter(metadata)
       THEN [self |-> self, sent |-> <<>>, replies |-> <<>>, raised |-> "none"]
       ELSE IF fetch_error(body) # "none"
       THEN [self |-> self, sent |-> <<request>>, replies |-> <<body.kind>>,
             raised |-> fetch_error(body)]
       ELSE [self |-> [response |-> [request |-> request, body |-> body],
                       current |-> extract_content(body)],
             sent |-> <<request>>, replies |-> <<body.kind>>, raised |-> "none"]

\* __next__ that fetches the next page on every call, before the queue is
\* empty
__next__prefetching(self, c, body) ==
    LET r == get_next(self, c, body)
    IN IF r.raised # "none"
       THEN [self |-> r.self, sent |-> r.sent, replies |-> r.replies,
             outcome |-> r.raised, item |-> <<>>]
       ELSE IF r.self.current # <<>>
       THEN [self |-> [r.self EXCEPT !.current = Tail(@)],
             sent |-> r.sent, replies |-> r.replies,
             outcome |-> "item", item |-> <<Head(r.self.current)>>]
       ELSE [self |-> r.self, sent |-> r.sent, replies |-> r.replies,
             outcome |-> "stop", item |-> <<>>]

__next__(self, c, body) ==
    LET r == IF self.current = <<>>
             THEN get_next(self, c, body)
             ELSE [self |-> self, sent |-> <<>>, replies |-> <<>>,
                   raised |-> "none"]
    IN IF r.raised # "none"
       THEN [self |-> r.self, sent |-> r.sent, replies |-> r.replies,
             outcome |-> r.raised, item |-> <<>>]
       ELSE IF r.self.current # <<>>
       THEN [self |-> [r.self EXCEPT !.current = Tail(@)],
             sent |-> r.sent, replies |-> r.replies,
             outcome |-> "item", item |-> <<Head(r.self.current)>>]
       ELSE [self |-> r.self, sent |-> r.sent, replies |-> r.replies,
             outcome |-> "stop", item |-> <<>>]

(***************************************************************************)
(* DnsZone.all (zone.py): the filter of the seeding request.  An optional  *)
(* name is <<>> (None) or <<text>>.                                        *)
(***************************************************************************)
Names == {<<>>, <<<<>>>>, <<Foo>>}

Truthy(name) == name # <<>> /\ name[1] # <<>>

\* the filter when the search flag is not looked at
all_params_exact(name, search) ==
    IF Truthy(name) THEN [k \in {"name"} |-> name[1]] ELSE NoParams

all_params(name, search) ==
    IF Truthy(name) /\ ~search THEN [k \in {"name"} |-> name[1]]
    ELSE IF Truthy(name) /\ search THEN [k \in {"search_name"} |-> name[1]]
    ELSE NoParams

\* client.get("/zones", params=params)
SeedRequest(c, params) ==
    IF c.base_url.set
    THEN build_request(c, "GET", RelativeUrl(<<"zones">>), params)
    ELSE build_request(c, "GET",
             [origin |-> Origin, path |-> EndpointPath, params |-> NoParams],
             params)

Errors == {"HetznerApiError", "DecodeError", "TransportError"}

NoRequest == [method |-> "", url |-> RelativeUrl(<<>>)]

NoResponse == [request |-> NoRequest,
               body |-> CHOOSE b \in BadBodies : b.kind = "malformed"]

\* the arguments of a DnsZone.all() call that has not been made
NoArgs == [name |-> <<>>, search |-> FALSE]

Self == [response |-> response, current |-> current]

(***************************************************************************)
(* Initial states: a server, a client, and a consumer that either drives   *)
(* the generator DnsZone.all() (gen = "created") or a ZoneIterator of its  *)
(* own (gen = "unused").  HetznerDNS always sets base_url (api.py).        *)
(***************************************************************************)
Servers ==
    {[mode |-> "paged", N |-> n, P |-> p, prefix |-> x] :
        n \in 0..MaxN, p \in 1..MaxPerPage, x \in {<<>>, ApiPrefix}}
    \cup {[mode |-> "any", N |-> 0, P |-> 1, prefix |-> ApiPrefix]}

CursorInit ==
    /\ srv \in Servers
    /\ gen \in {"unused", "created"}
    /\ args = NoArgs
    /\ client \in {[base_url |-> [set |-> TRUE, origin |-> Origin,
                                  path |-> srv.prefix]]}
                  \cup (IF gen = "unused"
                        THEN {[base_url |-> [set |-> FALSE, origin |-> "",
                                             path |-> <<>>]]}
                        ELSE {})
    /\ it = "absent"
    /\ response = NoResponse
    /\ current = <<>>
    /\ sent = <<>>
    /\ replies = <<>>
    /\ yielded = <<>>
    /\ last = "none"
    /\ stopped = FALSE
    /\ calls = 0

\* the effect of one ZoneIterator.__next__ call on the state
Step(r) ==
    /\ response' = r.self.response
    /\ current' = r.self.current
    /\ sent' = sent \o r.sent
    /\ replies' = replies \o r.replies
    /\ yielded' = yielded \o r.item
    /\ last' = r.outcome
    /\ stopped' = (stopped \/ r.outcome = "stop")
    /\ calls' = calls + 1

\* a caller sends the list request itself and builds ZoneIterator(client,
\* response): __init__ stores the response and extract_content(response)
Construct ==
    /\ gen = "unused"
    /\ it = "absent"
    /\ \E name \in Names, search \in BOOLEAN :
         LET request == SeedRequest(client, all_params(name, search))
         IN \E body \in ServerBodies(request) :
              /\ sent' = <<request>>
              /\ replies' = <<body.kind>>
              /\ IF fetch_error(body) # "none"
                 THEN /\ it' = "failed"
                      /\ last' = fetch_error(body)
                      /\ UNCHANGED <<response, current>>
                 ELSE /\ it' = "live"
                      /\ last' = "none"
                      /\ response' = [request |-> request, body |-> body]
                      /\ current' = extract_content(body)
    /\ UNCHANGED <<srv, client, gen, args, yielded, stopped, calls>>
    /\ UNCHANGED <<codecVars, viewsVars, ownVars>>

\* the consumer calls next() on its ZoneIterator
IterNext ==
    /\ gen = "unused"
    /\ it = "live"
    /\ calls < MaxCalls
    /\ \E body \in ServerBodies(_build_next_request(Self, client)) :
         Step(__next__(Self, client, body))
    /\ UNCHANGED <<srv, client, gen, args, it>>
    /\ UNCHANGED <<codecVars, viewsVars, ownVars>>

\* the consumer calls next() on the generator DnsZone.all(name, search):
\* the first call runs the body up to the first yield
AllNext ==
    /\ gen # "unused"
    /\ calls < MaxCalls
    /\ \/ /\ gen = "created"
          /\ \E name \in Names, search \in BOOLEAN :
               LET request == SeedRequest(client, all_params(name, search))
               IN \E body \in ServerBodies(request) :
                    /\ args' = [name |-> name, search |-> search]
                    /\ IF fetch_error(body) # "none"
                       THEN /\ it' = "failed"
                            /\ gen' = "done"
                            /\ sent' = <<request>>
                            /\ replies' = <<body.kind>>
                            /\ last' = fetch_error(body)
                            /\ calls' = calls + 1
                            /\ UNCHANGED <<response, current, yielded, stopped>>
                       ELSE LET self == [response |-> [request |-> request,
                                                       body |-> body],
                                         current |-> extract_content(body)]
                            IN \E body2 \in ServerBodies(
                                              _build_next_request(self, client)) :
                                 LET r == __next__(self, client, body2)
                                 IN /\ it' = "live"
                                    /\ gen' = IF r.outcome = "item"
                                              THEN "suspended" ELSE "done"
                                    /\ Step([r EXCEPT
                                               !.sent = <<request>> \o @,
                                               !.replies = <<body.kind>> \o @])
       \/ /\ gen = "suspended"
          /\ \E body \in ServerBodies(_build_next_request(Self, client)) :
               LET r == __next__(Self, client, body)
               IN /\ gen' = IF r.outcome = "item" THEN "suspended" ELSE "done"
                  /\ Step(r)
          /\ UNCHANGED <<it, args>>
       \/ /\ gen = "done"
          /\ last' = "stop"
          /\ stopped' = TRUE
          /\ calls' = calls + 1
          /\ UNCHANGED <<gen, args, it, response, current, sent, replies,
                         yielded>>
    /\ UNCHANGED <<srv, client>>
    /\ UNCHANGED <<codecVars, viewsVars, ownVars>>

(***************************************************************************)
(* The timestamp codec (decoding.py, types.py).  A HetznerTime is a        *)
(* datetime of the fixed day and minute DatePrefix: its second, its        *)
(* microsecond and its tzinfo (naive, or an offset in minutes and a zone   *)
(* name).  An optional value is <<>> (None) or <<value>>.                  *)
(***************************************************************************)
DatePrefix == <<"2", "0", "2", "5", "-", "0", "9", "-", "2", "6", " ", "1", "3", ":", "1", "8", ":">>

Seconds == {0, 19, 59}

Microseconds == {0, 5000, 838000, 838123, 999999}

Naive == [aware |-> FALSE, offset |-> 0, name |-> <<>>]

\* timezone.utc, a zone named GMT, Europe/Berlin in summer, America/New_York
\* in summer, timezone(timedelta(hours=2))
Zones == {Naive,
          [aware |-> TRUE, offset |-> 0, name |-> <<"U", "T", "C">>],
          [aware |-> TRUE, offset |-> 0, name |-> <<"G", "M", "T">>],
          [aware |-> TRUE, offset |-> 120, name |-> <<"C", "E", "S", "T">>],
          [aware |-> TRUE, offset |-> -240, name |-> <<"E", "D", "T">>],
          [aware |-> TRUE, offset |-> 120, name |-> <<"U", "T", "C", "+", "0", "2", ":", "0", "0">>]}

Times == [second : Seconds, microsecond : Microseconds, tz : Zones]

\* time.tzname of the host: a UTC host, a host in Europe/Berlin
Hosts == {{<<"U", "T", "C">>}, {<<"C", "E", "T">>, <<"C", "E", "S", "T">>}}

\* n in decimal, zero-padded to width digits
RECURSIVE ZeroPad(_, _)
ZeroPad(text, width) ==
    IF Len(text) >= width THEN text ELSE ZeroPad(<<"0">> \o text, width)

\* datetime.strftime(HETZNER_TIME_FORMAT): %S is 2 digits, %f is the
\* microsecond in 6 digits, %z and %Z are empty for a naive datetime
strftime(t) ==
    LET abs == IF t.tz.offset < 0 THEN -t.tz.offset ELSE t.tz.offset
        z == IF t.tz.aware
             THEN <<IF t.tz.offset < 0 THEN "-" ELSE "+">>
                  \o ZeroPad(str(abs \div 60), 2) \o ZeroPad(str(abs % 60), 2)
             ELSE <<>>
        Z == IF t.tz.aware THEN t.tz.name ELSE <<>>
    IN DatePrefix \o ZeroPad(str(t.second), 2) \o <<".">>
       \o ZeroPad(str(t.microsecond), 6) \o <<" ">> \o z \o <<" ">> \o Z

\* length of the longest run of characters of set at text[i], at most cap
Run(text, i, set, cap) ==
    LET fits(k) == /\ i + k - 1 <= Len(text)
                   /\ \A j \in i..(i + k - 1) : text[j] \in set
    IN CHOOSE k \in 0..cap : fits(k) /\ (k = cap \/ ~fits(k + 1))

Digits == {DigitChars[d] : d \in 1..10}

\* the zone names %Z accepts: utc, gmt and the host's time.tzname
AcceptedZones(tzname) == {<<"U", "T", "C">>, <<"G", "M", "T">>} \cup tzname

NoTime == [second |-> 0, microsecond |-> 0, tz |-> Naive]

\* datetime.strptime(text, HETZNER_TIME_FORMAT): %f takes 1 to 6 digits and
\* pads them on the right, a blank of the format takes one or more blanks,
\* %z takes sign and HHMM, %Z one of the accepted names; the whole text must
\* match.  The result is [ok, time]; ok = FALSE stands for ValueError.
strptime(text, tzname) ==
    LET p == Len(DatePrefix)
        f == p + 4
        flen == Run(text, f, Digits, 6)
        b1 == Run(text, f + flen, {" "}, Len(text))
        z == f + flen + b1
        b2 == Run(text, z + 5, {" "}, Len(text))
        Z == SubSeq(text, z + 5 + b2, Len(text))
        matches ==
            /\ Len(text) >= p + 3
            /\ SubSeq(text, 1, p) = DatePrefix
            /\ IsDigit(text[p + 1]) /\ IsDigit(text[p + 2])
            /\ text[p + 3] = "."
            /\ flen >= 1
            /\ b1 >= 1
            /\ Len(text) >= z + 4
            /\ text[z] \in {"+", "-"}
            /\ \A j \in (z + 1)..(z + 4) : IsDigit(text[j])
            /\ DigitVal(text[z + 3]) <= 5
            /\ b2 >= 1
            /\ Z \in AcceptedZones(tzname)
        hhmm == 60 * int(SubSeq(text, z + 1, z + 2))
                + int(SubSeq(text, z + 3, z + 4))
    IN IF ~matches THEN [ok |-> FALSE, time |-> NoTime]
       ELSE [ok |-> TRUE,
             time |-> [second |-> int(SubSeq(text, p + 1, p + 2)),
                       microsecond |->
                           int(SubSeq(text, f, f + flen - 1)
                               \o [i \in 1..(6 - flen) |-> "0"]),
                       tz |-> [aware |-> TRUE,
                               offset |-> IF text[z] = "-" THEN -hhmm
                                          ELSE hhmm,
                               name |-> Z]]]

\* datetime.__eq__: aware datetimes are equal when they are the same instant,
\* a naive and an aware datetime are never equal
datetime_eq(a, b) ==
    /\ a.tz.aware = b.tz.aware
    /\ a.second * 1000000 + a.microsecond - a.tz.offset * 60000000
         = b.second * 1000000 + b.microsecond - b.tz.offset * 60000000

\* values of the codec: kind names the class; timestamp is optional
HetznerTime(t) ==
    [kind |-> "HetznerTime", verified |-> FALSE, timestamp |-> <<t>>]

\* VerifiedTime.__init__(verified, timestamp): the timestamp argument is
\* not stored
VerifiedTime(verified, timestamp) ==
    [kind |-> "VerifiedTime", verified |-> verified, timestamp |-> <<>>]

ValueError == [kind |-> "ValueError", verified |-> FALSE, timestamp |-> <<>>]

NoObject == [kind |-> "none", verified |-> FALSE, timestamp |-> <<>>]

enc_hook(o) ==
    IF o.kind = "HetznerTime" THEN strftime(o.timestamp[1])
    ELSE IF o.timestamp # <<>> THEN strftime(o.timestamp[1])
    ELSE <<>>

\* dec_hook that answers a text it cannot parse with a default value
dec_hook_defaulting(type, text, tzname) ==
    LET parsed == strptime(text, tzname)
    IN IF type = "HetznerTime"
       THEN IF parsed.ok THEN HetznerTime(parsed.time) ELSE HetznerTime(NoTime)
       ELSE IF text = <<>> THEN VerifiedTime(FALSE, <<>>)
       ELSE IF parsed.ok THEN VerifiedTime(TRUE, <<parsed.time>>)
       ELSE VerifiedTime(FALSE, <<>>)

dec_hook(type, text, tzname) ==
    LET parsed == strptime(text, tzname)
    IN IF type = "HetznerTime"
       THEN IF parsed.ok THEN HetznerTime(parsed.time) ELSE ValueError
       ELSE IF text = <<>> THEN VerifiedTime(FALSE, <<>>)
       ELSE IF parsed.ok THEN VerifiedTime(TRUE, <<parsed.time>>)
       ELSE ValueError

NotATimestamp == <<"n", "o", "t", "-", "a", "-", "t", "i", "m", "e", "s", "t", "a", "m", "p">>

\* texts a server sends: the documented example, the empty string of an
\* unverified zone, and a text that is no timestamp
WireSamples == {<<"2", "0", "2", "5", "-", "0", "9", "-", "2", "6", " ", "1", "3", ":", "1", "8", ":", "1", "9", ".", "8", "3", "8", " ", "+", "0", "0", "0", "0", " ", "U", "T", "C">>,
                <<>>,
                NotATimestamp}

CodecIdle ==
    /\ host = {}
    /\ typ = "none"
    /\ arg = NoObject
    /\ obj = NoObject
    /\ wire = <<>>
    /\ out = NoObject
    /\ cpc = "idle"

CursorIdle ==
    /\ srv = [mode |-> "any", N |-> 0, P |-> 1, prefix |-> ApiPrefix]
    /\ client = [base_url |-> [set |-> TRUE, origin |-> Origin,
                               path |-> ApiPrefix]]
    /\ gen = "unused"
    /\ args = NoArgs
    /\ it = "failed"
    /\ response = NoResponse
    /\ current = <<>>
    /\ sent = <<>>
    /\ replies = <<>>
    /\ yielded = <<>>
    /\ last = "none"
    /\ stopped = FALSE
    /\ calls = 0

CodecInit ==
    /\ host \in Hosts
    /\ typ = "none"
    /\ arg = NoObject
    /\ obj = NoObject
    /\ wire = <<>>
    /\ out = NoObject
    /\ cpc = "start"

\* a caller builds a HetznerTime
NewTime ==
    /\ cpc = "start"
    /\ \E t \in Times :
         /\ arg' = HetznerTime(t)
         /\ obj' = HetznerTime(t)
    /\ typ' = "HetznerTime"
    /\ cpc' = "built"
    /\ UNCHANGED <<host, wire, out>>
    /\ UNCHANGED <<cursorVars, viewsVars, ownVars>>

\* a caller builds a VerifiedTime the way dec_hook does: unverified without a
\* timestamp, or verified with one; arg keeps what the caller asked for
NewVerified ==
    /\ cpc = "start"
    /\ \/ /\ arg' = [kind |-> "VerifiedTime", verified |-> FALSE,
                     timestamp |-> <<>>]
          /\ obj' = VerifiedTime(FALSE, <<>>)
       \/ \E t \in Times :
            /\ arg' = [kind |-> "VerifiedTime", verified |-> TRUE,
                       timestamp |-> <<t>>]
            /\ obj' = VerifiedTime(TRUE, <<t>>)
    /\ typ' = "VerifiedTime"
    /\ cpc' = "built"
    /\ UNCHANGED <<host, wire, out>>
    /\ UNCHANGED <<cursorVars, viewsVars, ownVars>>

\* msgspec calls enc_hook on the value
Encode ==
    /\ cpc = "built"
    /\ wire' = enc_hook(obj)
    /\ cpc' = "encoded"
    /\ UNCHANGED <<host, typ, arg, obj, out>>
    /\ UNCHANGED <<cursorVars, viewsVars, ownVars>>

\* a text arrives from the server for a field of type typ
Receive ==
    /\ cpc = "start"
    /\ typ' \in {"HetznerTime", "VerifiedTime"}
    /\ wire' \in WireSamples
    /\ cpc' = "received"
    /\ UNCHANGED <<host, arg, obj, out>>
    /\ UNCHANGED <<cursorVars, viewsVars, ownVars>>

\* msgspec calls dec_hook on the text
Decode ==
    /\ cpc \in {"encoded", "received"}
    /\ out' = dec_hook(typ, wire, host)
    /\ cpc' = "decoded"
    /\ UNCHANGED <<host, typ, arg, obj, wire>>
    /\ UNCHANGED <<cursorVars, viewsVars, ownVars>>

(***************************************************************************)
(* The entity views (base.py, zone.py DnsZone, records.py).  A response    *)
(* body is modelled by what decoding looks at: whether it is JSON, the     *)
(* top-level fields it carries, the ids of the entities in its main list,  *)
(* the entries it reports as failed, and its record count.                 *)
(***************************************************************************)
\* most entries added to one bulk builder
MaxEntries == 2

ZoneIds == {"z1", "z2"}

RecordIds == {"r1", "r2"}

\* ttl=None or a ttl
Ttls == {<<>>, <<7200>>}

EnvelopeTypes == {"DnsZoneGetResponse", "DnsZoneListResponse",
                  "DnsRecordItemResponse", "DnsRecordListResponse",
                  "DnsBulkRecordCreateResponse", "DnsBulkRecordUpdateResponse",
                  "DnsZoneValidationResponse"}

\* the fields of a struct that have no default
Required(type) ==
    CASE type = "DnsZoneGetResponse" -> {"zone"}
      [] type = "DnsZoneListResponse" -> {"meta", "zones"}
      [] type = "DnsRecordItemResponse" -> {"record"}
      [] type = "DnsRecordListResponse" -> {"records"}
      [] type = "DnsBulkRecordCreateResponse" ->
             {"records", "valid_records", "invalid_records"}
      [] type = "DnsBulkRecordUpdateResponse" -> {"records", "failed_records"}
      [] OTHER -> {"parsed_records", "valid_records"}

\* a JSON body that is exactly an envelope of the type
Envelope(type, list, failed, count) ==
    [json |-> TRUE, fields |-> Required(type), list |-> list,
     failed |-> failed, count |-> count]

\* a body that is no JSON: a zone file, an empty body
TextBody == [json |-> FALSE, fields |-> {}, list |-> <<>>, failed |-> <<>>,
             count |-> 0]

\* the bodies of tests/factories.py, one or more per envelope
Payloads ==
    {Envelope("DnsZoneGetResponse", <<z>>, <<>>, 2) : z \in ZoneIds}
    \cup {Envelope("DnsZoneListResponse", zs, <<>>, 0) :
             zs \in {<<>>, <<"z1", "z2">>, <<"z2", "z1">>}}
    \cup {Envelope("DnsRecordItemResponse", <<"r1">>, <<>>, 0),
          Envelope("DnsRecordListResponse", <<"r1", "r2">>, <<>>, 0),
          Envelope("DnsBulkRecordCreateResponse", <<"r1">>, <<"r2">>, 0),
          Envelope("DnsBulkRecordUpdateResponse", <<"r1">>, <<"r2">>, 0),
          Envelope("DnsZoneValidationResponse", <<"r1">>, <<>>, 1),
          TextBody}

Statuses == {200, 201, 204, 401, 404, 500}

\* what the server may answer a request with
Answers == [status : Statuses, payload : Payloads]

\* httpx.Response: the answer together with the request it answers
Response(request, ans) ==
    [status_code |-> ans.status, text |-> ans.payload, request |-> request]

\* the outcome of a call: the exception it raised ("none": it returned),
\* what the exception's message carries, and the value returned (<<>> is
\* None)
Returned(value) ==
    [raised |-> "none", status |-> 0, text |-> <<>>, path |-> <<>>,
     pretty_json |-> FALSE, value |-> value]

Raised(error) ==
    [raised |-> error, status |-> 0, text |-> <<>>, path |-> <<>>,
     pretty_json |-> FALSE, value |-> <<>>]

\* msgspec.json.decode: no JSON raises DecodeError, JSON that lacks a
\* required field raises ValidationError (unknown fields are ignored); the
\* message of neither carries the body
decode_object(text, type) ==
    IF ~text.json THEN Raised("DecodeError")
    ELSE IF ~(Required(type) \subseteq text.fields) THEN Raised("ValidationError")
    ELSE Returned(<<text>>)

BaseApiView(c) == [client |-> c]

_validate_response(resp) ==
    IF resp.status_code = 404
    THEN [Raised("HetznerApiNotFoundError") EXCEPT
             !.path = <<resp.request.url.path>>]
    ELSE IF resp.status_code = 401
    THEN Raised("AuthorizationFailedError")
    ELSE IF resp.status_code \notin {200, 201, 204}
    THEN [Raised("HetznerApiError") EXCEPT
             !.status = resp.status_code, !.text = <<resp.text>>]
    ELSE Returned(<<>>)

\* attribute lookup on an object (a record of its attributes)
hasattr(o, name) == name \in DOMAIN o

AttributeError == Raised("AttributeError")

\* httpx.Client.request: the request client.get/post/put/delete sends
Request(c, method, path, params, content) ==
    LET r == build_request(c, method, RelativeUrl(path), params)
    IN [method |-> r.method, url |-> r.url, content |-> content]

\* self._validate_response(response) followed by decode_object(response.text,
\* type): the first exception raised, else the decoded struct
Checked(resp, type) ==
    IF _validate_response(resp).raised # "none" THEN _validate_response(resp)
    ELSE decode_object(resp.text, type)

\* a method's effect: the requests it sent and its outcome; field is applied
\* to the decoded struct when the method returned one
Effect(request, r, value) ==
    [sent |-> <<request>>,
     result |-> IF r.raised # "none" THEN r ELSE Returned(value)]

NoEffect(r) == [sent |-> <<>>, result |-> r]

(***************************************************************************)
(* DnsZone (zone.py).  ans is the answer the server gives to the request.  *)
(***************************************************************************)
DnsZone(c) == BaseApiView(c)

\* the DnsZoneResponse of a decoded DnsZoneGetResponse
Zone(data) == [id |-> data.list[1], records_count |-> data.count]

ZoneFile == "$ORIGIN foo."

DnsZone_get(self, zone_id, ans) ==
    LET request == Request(self.client, "GET", <<"zones", zone_id>>,
                           NoParams, <<>>)
        r == Checked(Response(request, ans), "DnsZoneGetResponse")
    IN Effect(request, r, <<Zone(r.value[1])>>)

DnsZone_count(self, zone_id, ans) ==
    LET e == DnsZone_get(self, zone_id, ans)
    IN [sent |-> e.sent,
        result |-> IF e.result.raised # "none" THEN e.result
                   ELSE Returned(<<e.result.value[1].records_count>>)]

\* get_id that takes the last zone of the list
DnsZone_get_id_last(self, name, ans) ==
    LET request == Request(self.client, "GET", <<"zones">>,
                           [k \in {"name"} |-> name], <<>>)
        r == decode_object(ans.payload, "DnsZoneListResponse")
    IN Effect(request, r,
              IF r.value[1].list # <<>>
              THEN <<r.value[1].list[Len(r.value[1].list)]>> ELSE <<>>)

DnsZone_get_id(self, name, ans) ==
    LET request == Request(self.client, "GET", <<"zones">>,
                           [k \in {"name"} |-> name], <<>>)
        r == decode_object(ans.payload, "DnsZoneListResponse")
    IN Effect(request, r,
              IF r.value[1].list # <<>> THEN <<r.value[1].list[1]>> ELSE <<>>)

\* {"name": name} and, for a ttl that is neither None nor 0, "ttl"
name_ttl(name, ttl) ==
    [k \in {"name"} \cup (IF ttl # <<>> /\ ttl[1] # 0 THEN {"ttl"} ELSE {}) |->
        IF k = "name" THEN name ELSE str(ttl[1])]

DnsZone_create(self, name, ttl, ans) ==
    LET request == Request(self.client, "POST", <<"zones">>,
                           name_ttl(name, ttl), <<>>)
        r == Checked(Response(request, ans), "DnsZoneGetResponse")
    IN Effect(request, r, <<Zone(r.value[1])>>)

DnsZone_update(self, zone_id, name, ttl, ans) ==
    LET request == Request(self.client, "PUT", <<"zones", zone_id>>,
                           NoParams, <<name_ttl(name, ttl)>>)
        r == Checked(Response(request, ans), "DnsZoneGetResponse")
    IN Effect(request, r, <<Zone(r.value[1])>>)

DnsZone_delete(self, zone_id, ans) ==
    LET request == Request(self.client, "DELETE",
                           <<"zones", zone_id, "import">>, NoParams, <<>>)
    IN Effect(request, _validate_response(Response(request, ans)), <<>>)

DnsZone_import_zone(self, zone_id, content, ans) ==
    LET request == Request(self.client, "POST", <<"zones", zone_id>>,
                           NoParams, <<content>>)
        r == Checked(Response(request, ans), "DnsZoneGetResponse")
    IN Effect(request, r, <<Zone(r.value[1])>>)

DnsZone_export_zone(self, zone_id, ans) ==
    LET request == Request(self.client, "GET",
                           <<"zones", zone_id, "export">>, NoParams, <<>>)
    IN Effect(request, _validate_response(Response(request, ans)),
              <<ans.payload>>)

DnsZone_validate_zone(self, zone_id, content, ans) ==
    LET request == Request(self.client, "POST",
                           <<"zones", zone_id, "validate">>, NoParams,
                           <<content>>)
        r == Checked(Response(request, ans), "DnsZoneValidationResponse")
    IN Effect(request, r, r.value)

(***************************************************************************)
(* DnsRecord and the bulk builders (records.py).  Every method reads       *)
(* self._client; BaseApiView.__init__ stores the client as self.client.    *)
(***************************************************************************)
DnsRecord(c) == BaseApiView(c)

RecordTypeCreatable == {"A", "AAAA", "NS", "MX", "CNAME", "RP", "TXT", "SOA",
                        "HINFO", "SRV", "DANE", "TLSA", "DS", "CAA"}

\* record types a caller passes: a creatable one and one that is not
RecordTypes == {"A", "PTR"}

RecordNames == {"www", "mail"}

\* DnsRecordRequest / DnsRecordUpdateRequest, by the fields that vary here
DnsRecordRequest(name, type) == [name |-> name, type |-> type]

\* list(DnsRecord.all(zone_id)): all the records the generator yields
DnsRecord_all(self, zone_id, ans) ==
    IF ~hasattr(self, "_client") THEN NoEffect(AttributeError)
    ELSE LET request == Request(self._client, "GET", <<"records">>,
                                [k \in {"zone_id"} |-> zone_id], <<>>)
             r == Checked(Response(request, ans), "DnsRecordListResponse")
         IN Effect(request, r, r.value[1].list)

DnsRecord_get(self, record_id, ans) ==
    IF ~hasattr(self, "_client") THEN NoEffect(AttributeError)
    ELSE LET request == Request(self._client, "GET", <<"records", record_id>>,
                                NoParams, <<>>)
             r == Checked(Response(request, ans), "DnsRecordItemResponse")
         IN Effect(request, r, <<r.value[1].list[1]>>)

DnsRecord_create(self, name, record_type, ans) ==
    IF record_type \notin RecordTypeCreatable THEN NoEffect(Raised("ValueError"))
    ELSE IF ~hasattr(self, "_client") THEN NoEffect(AttributeError)
    ELSE LET request == Request(self._client, "POST", <<"records">>, NoParams,
                                <<DnsRecordRequest(name, record_type)>>)
             r == Checked(Response(request, ans), "DnsRecordItemResponse")
         IN Effect(request, r, <<r.value[1].list[1]>>)

DnsRecord_update(self, record_id, name, record_type, ans) ==
    IF record_type \notin RecordTypeCreatable THEN NoEffect(Raised("ValueError"))
    ELSE IF ~hasattr(self, "_client") THEN NoEffect(AttributeError)
    ELSE LET request == Request(self._client, "PUT", <<"records", record_id>>,
                                NoParams,
                                <<DnsRecordRequest(name, record_type)>>)
             r == Checked(Response(request, ans), "DnsRecordItemResponse")
         IN Effect(request, r, <<r.value[1].list[1]>>)

DnsRecord_delete(self, record_id, ans) ==
    IF ~hasattr(self, "_client") THEN NoEffect(AttributeError)
    ELSE LET request == Request(self._client, "DELETE",
                                <<"records", record_id>>, NoParams, <<>>)
         IN Effect(request, _validate_response(Response(request, ans)), <<>>)

\* DnsBulkCreateRecord(client) / DnsBulkUpdateRecord(client): a fresh list
DnsBulkRecord(c) == [client |-> c, records |-> <<>>]

\* add(): the records list after the call, or the ValueError of the enum
DnsBulkRecord_add(self, name, record_type) ==
    IF record_type \notin RecordTypeCreatable
    THEN [self |-> self, result |-> Raised("ValueError")]
    ELSE [self |-> [self EXCEPT !.records =
                       Append(@, DnsRecordRequest(name, record_type))],
          result |-> Returned(<<>>)]

\* submit() of DnsBulkCreateRecord (POST) and DnsBulkUpdateRecord (PUT)
DnsBulkRecord_submit(self, method, type, ans) ==
    IF ~hasattr(self, "_client") THEN NoEffect(AttributeError)
    ELSE LET request == Request(self._client, method, <<"records", "bulk">>,
                                NoParams, self.records)
             r == Checked(Response(request, ans), type)
         IN Effect(request, r, r.value)

(***************************************************************************)
(* Calls on the views.  One call is made per behaviour on a view built     *)
(* from the client of HetznerDNS; a bulk builder is filled with add()      *)
(* before its submit().                                                    *)
(***************************************************************************)
NoCall == [view |-> "", op |-> "", id |-> "", name |-> <<>>]

Called(view, op, id, name) ==
    [view |-> view, op |-> op, id |-> id, name |-> name]

ViewsIdle ==
    /\ call = NoCall
    /\ pending = <<>>
    /\ http = <<>>
    /\ answer = <<>>
    /\ result = Returned(<<>>)
    /\ vpc = "idle"

ViewsInit ==
    /\ call = NoCall
    /\ pending = <<>>
    /\ http = <<>>
    /\ answer = <<>>
    /\ result = Returned(<<>>)
    /\ vpc = "ready"

\* the call c ran to its end with effect e; ans is the answer the server
\* holds for the call's request (http tells whether the request was sent)
Finish(c, e, ans) ==
    /\ vpc' = "done"
    /\ call' = c
    /\ http' = e.sent
    /\ answer' = <<ans>>
    /\ result' = e.result
    /\ UNCHANGED <<pending, cursorVars, codecVars, ownVars>>

ZoneGet ==
    /\ vpc = "ready"
    /\ \E zone_id \in ZoneIds, ans \in Answers :
         Finish(Called("DnsZone", "get", zone_id, <<>>),
                DnsZone_get(DnsZone(client), zone_id, ans), ans)

ZoneCount ==
    /\ vpc = "ready"
    /\ \E zone_id \in ZoneIds, ans \in Answers :
         Finish(Called("DnsZone", "count", zone_id, <<>>),
                DnsZone_count(DnsZone(client), zone_id, ans), ans)

ZoneGetId ==
    /\ vpc = "ready"
    /\ \E ans \in Answers :
         Finish(Called("DnsZone", "get_id", "", Foo),
                DnsZone_get_id(DnsZone(client), Foo, ans), ans)

ZoneCreate ==
    /\ vpc = "ready"
    /\ \E ttl \in Ttls, ans \in Answers :
         Finish(Called("DnsZone", "create", "", Foo),
                DnsZone_create(DnsZone(client), Foo, ttl, ans), ans)

ZoneUpdate ==
    /\ vpc = "ready"
    /\ \E zone_id \in ZoneIds, ttl \in Ttls, ans \in Answers :
         Finish(Called("DnsZone", "update", zone_id, Foo),
                DnsZone_update(DnsZone(client), zone_id, Foo, ttl, ans), ans)

ZoneDelete ==
    /\ vpc = "ready"
    /\ \E zone_id \in ZoneIds, ans \in Answers :
         Finish(Called("DnsZone", "delete", zone_id, <<>>),
                DnsZone_delete(DnsZone(client), zone_id, ans), ans)

ZoneImport ==
    /\ vpc = "ready"
    /\ \E zone_id \in ZoneIds, ans \in Answers :
         Finish(Called("DnsZone", "import_zone", zone_id, <<>>),
                DnsZone_import_zone(DnsZone(client), zone_id, ZoneFile, ans),
                ans)

ZoneExport ==
    /\ vpc = "ready"
    /\ \E zone_id \in ZoneIds, ans \in Answers :
         Finish(Called("DnsZone", "export_zone", zone_id, <<>>),
                DnsZone_export_zone(DnsZone(client), zone_id, ans), ans)

ZoneValidate ==
    /\ vpc = "ready"
    /\ \E zone_id \in ZoneIds, ans \in Answers :
         Finish(Called("DnsZone", "validate_zone", zone_id, <<>>),
                DnsZone_validate_zone(DnsZone(client), zone_id, ZoneFile, ans),
                ans)

RecordAll ==
    /\ vpc = "ready"
    /\ \E zone_id \in ZoneIds, ans \in Answers :
         Finish(Called("DnsRecord", "all", zone_id, <<>>),
                DnsRecord_all(DnsRecord(client), zone_id, ans), ans)

RecordGet ==
    /\ vpc = "ready"
    /\ \E record_id \in RecordIds, ans \in Answers :
         Finish(Called("DnsRecord", "get", record_id, <<>>),
                DnsRecord_get(DnsRecord(client), record_id, ans), ans)

RecordCreate ==
    /\ vpc = "ready"
    /\ \E name \in RecordNames, type \in RecordTypes, ans \in Answers :
         Finish(Called("DnsRecord", "create", "", <<name, type>>),
                DnsRecord_create(DnsRecord(client), name, type, ans), ans)

RecordUpdate ==
    /\ vpc = "ready"
    /\ \E record_id \in RecordIds, name \in RecordNames, type \in RecordTypes,
          ans \in Answers :
         Finish(Called("DnsRecord", "update", record_id, <<name, type>>),
                DnsRecord_update(DnsRecord(client), record_id, name, type, ans),
                ans)

RecordDelete ==
    /\ vpc = "ready"
    /\ \E record_id \in RecordIds, ans \in Answers :
         Finish(Called("DnsRecord", "delete", record_id, <<>>),
                DnsRecord_delete(DnsRecord(client), record_id, ans), ans)

\* with records.bulk_create() / records.bulk_update(): entering the context
\* manager builds the builder from self._client
BulkContext ==
    /\ vpc = "ready"
    /\ \E op \in {"bulk_create", "bulk_update"} :
         IF hasattr(DnsRecord(client), "_client")
         THEN /\ vpc' = "building"
              /\ call' = Called(IF op = "bulk_create"
                                THEN "DnsBulkCreateRecord"
                                ELSE "DnsBulkUpdateRecord", "__init__", "", <<>>)
              /\ UNCHANGED <<pending, http, answer, result, cursorVars,
                             codecVars, ownVars>>
         ELSE /\ vpc' = "done"
              /\ call' = Called("DnsRecord", op, "", <<>>)
              /\ result' = AttributeError
              /\ UNCHANGED <<pending, http, answer, cursorVars, codecVars, ownVars>>

\* DnsBulkCreateRecord(client) / DnsBulkUpdateRecord(client)
NewBuilder ==
    /\ vpc = "ready"
    /\ \E view \in {"DnsBulkCreateRecord", "DnsBulkUpdateRecord"} :
         /\ vpc' = "building"
         /\ call' = Called(view, "__init__", "", <<>>)
         /\ pending' = DnsBulkRecord(client).records
    /\ UNCHANGED <<http, answer, result, cursorVars, codecVars, ownVars>>

BulkAdd ==
    /\ vpc = "building"
    /\ Len(pending) < MaxEntries
    /\ \E name \in RecordNames, type \in RecordTypes :
         LET e == DnsBulkRecord_add([client |-> client, records |-> pending],
                                    name, type)
         IN /\ pending' = e.self.records
            /\ result' = e.result
            /\ call' = [call EXCEPT !.op = "add", !.name = <<name, type>>]
    /\ UNCHANGED <<vpc, http, answer, cursorVars, codecVars, ownVars>>

BulkSubmit ==
    /\ vpc = "building"
    /\ \E ans \in Answers :
         Finish([call EXCEPT !.op = "submit", !.name = <<>>],
                IF call.view = "DnsBulkCreateRecord"
                THEN DnsBulkRecord_submit(
                         [client |-> client, records |-> pending], "POST",
                         "DnsBulkRecordCreateResponse", ans)
                ELSE DnsBulkRecord_submit(
                         [client |-> client, records |-> pending], "PUT",
                         "DnsBulkRecordUpdateResponse", ans),
                ans)

\* decode_object(text, type) called directly
DecodeObject ==
    /\ vpc = "ready"
    /\ \E text \in Payloads, type \in EnvelopeTypes :
         /\ vpc' = "done"
         /\ call' = Called("decoding", "decode_object", type, <<>>)
         /\ http' = <<>>
         /\ answer' = <<[status |-> 200, payload |-> text]>>
         /\ result' = decode_object(text, type)
    /\ UNCHANGED <<pending, cursorVars, codecVars, ownVars>>

(***************************************************************************)
(* Several builders and several cursors side by side.  Python lists are    *)
(* objects: heap is the sequence of the lists allocated so far, and a      *)
(* builder's records field and a cursor's current field hold the index of  *)
(* a list in it.  add() appends to the list in place and __next__ pops     *)
(* from it in place; get_next binds current to the list of a new decode.   *)
(***************************************************************************)
\* most builders and cursors alive at once, taken together
MaxObjects == 2

\* a default that is one list shared by every instance
default_factory_shared(h) == 1

\* msgspec.field(default_factory=list): every instance gets a list of its own
default_factory(h) == Len(h) + 1

\* the heap once the list at index id exists
Alloc(h, id, list) == IF id > Len(h) THEN Append(h, list) ELSE h

NoActor == [kind |-> "none", index |-> 0]

OwnIdle ==
    /\ heap = <<>>
    /\ builders = <<>>
    /\ cursors = <<>>
    /\ acted = NoActor

\* the list endpoint holds more zones than one page, behind either base url
OwnInit ==
    /\ srv \in {[mode |-> "paged", N |-> MaxPerPage + 1, P |-> MaxPerPage,
                 prefix |-> x] : x \in {<<>>, ApiPrefix}}
    /\ client = [base_url |-> [set |-> TRUE, origin |-> Origin,
                               path |-> srv.prefix]]
    /\ gen = "unused"
    /\ args = NoArgs
    /\ it = "failed"
    /\ response = NoResponse
    /\ current = <<>>
    /\ sent = <<>>
    /\ replies = <<>>
    /\ yielded = <<>>
    /\ last = "none"
    /\ stopped = FALSE
    /\ calls = 0
    /\ OwnIdle

\* with records.bulk_create() / records.bulk_update(): the builder is built
\* from self._client
OwnBulkContext ==
    /\ Len(builders) + Len(cursors) < MaxObjects
    /\ \E view \in {"DnsBulkCreateRecord", "DnsBulkUpdateRecord"} :
         IF hasattr(DnsRecord(client), "_client")
         THEN LET id == default_factory(heap)
              IN /\ heap' = Alloc(heap, id, DnsBulkRecord(client).records)
                 /\ builders' = Append(builders, [view |-> view, records |-> id])
                 /\ acted' = [kind |-> "builder", index |-> Len(builders) + 1]
         ELSE /\ acted' = [kind |-> "AttributeError", index |-> 0]
              /\ UNCHANGED <<heap, builders>>
    /\ UNCHANGED <<cursors, cursorVars, codecVars, viewsVars>>

\* DnsBulkCreateRecord(client) / DnsBulkUpdateRecord(client): __init__ sets
\* self.records to a new request struct
OwnNewBuilder ==
    /\ Len(builders) + Len(cursors) < MaxObjects
    /\ \E view \in {"DnsBulkCreateRecord", "DnsBulkUpdateRecord"} :
         LET id == default_factory(heap)
         IN /\ heap' = Alloc(heap, id, DnsBulkRecord(client).records)
            /\ builders' = Append(builders, [view |-> view, records |-> id])
            /\ acted' = [kind |-> "builder", index |-> Len(builders) + 1]
    /\ UNCHANGED <<cursors, cursorVars, codecVars, viewsVars>>

\* add() on builder i
OwnAdd ==
    /\ \E i \in 1..Len(builders), name \in RecordNames, type \in RecordTypes :
         LET id == builders[i].records
             e == DnsBulkRecord_add([client |-> client, records |-> heap[id]],
                                    name, type)
         IN /\ Len(heap[id]) < MaxEntries
            /\ heap' = [heap EXCEPT ![id] = e.self.records]
            /\ acted' = [kind |-> "builder", index |-> i]
    /\ UNCHANGED <<builders, cursors, cursorVars, codecVars, viewsVars>>

\* ZoneIterator(client, response) on the response of a list request
OwnNewCursor ==
    /\ Len(builders) + Len(cursors) < MaxObjects
    /\ LET request == SeedRequest(client, NoParams)
           id == Len(heap) + 1
       IN \E body \in ServerBodies(request) :
            /\ fetch_error(body) = "none"
            /\ heap' = Alloc(heap, id, extract_content(body))
            /\ cursors' = Append(cursors,
                                 [response |-> [request |-> request,
                                                body |-> body],
                                  current |-> id])
            /\ acted' = [kind |-> "cursor", index |-> Len(cursors) + 1]
    /\ UNCHANGED <<builders, cursorVars, codecVars, viewsVars>>

\* next() on cursor i: a fetch binds current to a new list, a pop changes
\* the list in place
OwnNext ==
    /\ \E i \in 1..Len(cursors) :
         LET self == [response |-> cursors[i].response,
                      current |-> heap[cursors[i].current]]
         IN \E body \in ServerBodies(_build_next_request(self, client)) :
              LET r == __next__(self, client, body)
                  fetched == r.self.response # self.response
                  id == IF fetched THEN Len(heap) + 1 ELSE cursors[i].current
              IN /\ heap' = IF fetched THEN Append(heap, r.self.current)
                            ELSE [heap EXCEPT ![id] = r.self.current]
                 /\ cursors' = [cursors EXCEPT
                                  ![i] = [response |-> r.self.response,
                                          current |-> id]]
                 /\ acted' = [kind |-> "cursor", index |-> i]
    /\ UNCHANGED <<builders, cursorVars, codecVars, viewsVars>>

Init == CursorInit /\ CodecIdle /\ ViewsIdle /\ OwnIdle

Next == Construct \/ IterNext \/ AllNext

Spec == Init /\ [][Next]_vars

InitCodec == CursorIdle /\ CodecInit /\ ViewsIdle /\ OwnIdle

NextCodec == NewTime \/ NewVerified \/ Encode \/ Receive \/ Decode

SpecCodec == InitCodec /\ [][NextCodec]_vars

InitViews == CursorIdle /\ CodecIdle /\ ViewsInit /\ OwnIdle

NextViews ==
    \/ ZoneGet \/ ZoneCount \/ ZoneGetId \/ ZoneCreate \/ ZoneUpdate
    \/ ZoneDelete \/ ZoneImport \/ ZoneExport \/ ZoneValidate
    \/ RecordAll \/ RecordGet \/ RecordCreate \/ RecordUpdate \/ RecordDelete
    \/ BulkContext \/ NewBuilder \/ BulkAdd \/ BulkSubmit
    \/ DecodeObject

SpecViews == InitViews /\ [][NextViews]_vars

InitOwn == OwnInit /\ CodecIdle /\ ViewsIdle

NextOwn ==
    OwnBulkContext \/ OwnNewBuilder \/ OwnAdd \/ OwnNewCursor \/ OwnNext

SpecOwn == InitOwn /\ [][NextOwn]_vars

(***************************************************************************)
(* Properties of the page cursor.                                          *)
(***************************************************************************)
Paged == srv.mode = "paged"

AllZones == [i \in 1..srv.N |-> i]

IsPrefix(s, t) == Len(s) <= Len(t) /\ \A i \in 1..Len(s) : s[i] = t[i]

NoError == \A i \in 1..Len(replies) : replies[i] = "ok"

Meta == response.body.meta

\* the page value a request carries, 1 when it carries none
PageOf(request) ==
    IF "page" \in DOMAIN request.url.params
    THEN int(request.url.params["page"]) ELSE 1

\* request b carries every parameter of request a unchanged but the page,
\* and its page is the page of a plus one
NextPageOf(a, b) ==
    /\ DOMAIN b.url.params = DOMAIN a.url.params \cup {"page"}
    /\ \A k \in DOMAIN a.url.params \ {"page"} :
         b.url.params[k] = a.url.params[k]
    /\ b.url.params["page"] = str(PageOf(a) + 1)

\* C1: against an endpoint holding N zones served P per page, the cursor
\* yields zones 1..N in order, one per call and each once, never raises, and
\* the call after the N-th signals end of sequence.
C1_YieldsAllInOrder ==
    Paged => /\ IsPrefix(yielded, AllZones)
             /\ last \notin Errors
             /\ (calls <= srv.N => Len(yielded) = calls)
             /\ (calls > srv.N => last = "stop" /\ yielded = AllZones)

\* C2 as stated: a complete iteration issues ceil(N/P) requests, the seeding
\* request included.
C2_RequestsCeil ==
    (Paged /\ last = "stop" /\ NoError) => Len(sent) = Ceil(srv.N, srv.P)

\* C2 amended: a complete iteration issues max(1, ceil(N/P)) requests: the
\* seeding request is issued even when the endpoint holds no zone.
C2_RequestsCeilAtLeastOne ==
    (Paged /\ last = "stop" /\ NoError)
        => Len(sent) = Max(1, Ceil(srv.N, srv.P))

C2_Witness ==
    Paged /\ last = "stop" /\ NoError /\ Len(sent) = 3 /\ srv.N = 3

\* C3 as stated: every page request carries the parameters of the request
\* before it, with that request's page plus one.
C3_PagePlusOneOfPrevious ==
    \A i \in 2..Len(sent) : NextPageOf(sent[i - 1], sent[i])

\* C3 amended: every page request carries the parameters of the request that
\* produced the response the cursor holds (the latest request that was
\* answered with a zone list), with that request's page plus one; a page
\* whose fetch failed is requested again.
C3_PagePlusOneOfStored ==
    \A i \in 2..Len(sent) :
        \E j \in 1..(i - 1) :
            /\ replies[j] = "ok"
            /\ \A m \in (j + 1)..(i - 1) : replies[m] # "ok"
            /\ NextPageOf(sent[j], sent[i])

C3_Witness ==
    /\ Len(sent) >= 3
    /\ "search_name" \in DOMAIN sent[1].url.params
    /\ sent[3].url.params["search_name"] = Foo
    /\ NoError

\* C4: while the stored response reports page >= last_page no request is
\* sent, and the stored response is the answer to the last request sent.
C4_NoRequestPastLastPage ==
    /\ []((it = "live" /\ Meta.page >= Meta.last_page)
            => (sent[Len(sent)] = response.request
                /\ replies[Len(replies)] = "ok"))
    /\ [][(it = "live" /\ Meta.page >= Meta.last_page) => sent' = sent]_vars

C4_Witness ==
    /\ it = "live" /\ gen = "unused"
    /\ Meta.page = Meta.last_page
    /\ Len(sent) = 1
    /\ calls >= 3
    /\ last = "stop"

\* the stored response is the first one
FirstResponse == it = "live" /\ Len(sent) = 1

\* C5 as stated: a first response with total_entries = 0 ends the sequence at
\* the first call with no follow-up request, whatever page and last_page.
C5_ZeroTotalEnds ==
    /\ []((FirstResponse /\ Meta.total_entries = 0 /\ calls >= 1)
            => (last = "stop" /\ yielded = <<>>))
    /\ [][(FirstResponse /\ Meta.total_entries = 0)
            => (sent' = sent /\ yielded' = <<>> /\ last' = "stop")]_vars

\* C5 amended: a first response with total_entries = 0 that carries no zone
\* and reports page >= last_page ends the sequence at the first call with no
\* follow-up request.
C5_ZeroTotalLastPageEnds ==
    /\ []((FirstResponse /\ Meta.total_entries = 0
             /\ response.body.zones = <<>> /\ Meta.page >= Meta.last_page
             /\ calls >= 1)
            => (last = "stop" /\ yielded = <<>>))
    /\ [][(FirstResponse /\ Meta.total_entries = 0
             /\ response.body.zones = <<>> /\ Meta.page >= Meta.last_page)
            => (sent' = sent /\ yielded' = <<>> /\ last' = "stop")]_vars

C5_Witness ==
    /\ FirstResponse /\ Meta.total_entries = 0
    /\ response.body.zones = <<>> /\ Meta.page >= Meta.last_page
    /\ calls >= 2 /\ last = "stop" /\ yielded = <<>>

\* C6: once end of sequence was signalled, every later call signals it again,
\* returns no zone and sends no request.
C6_ExhaustionAbsorbing ==
    [][stopped => (last' = "stop" /\ sent' = sent /\ yielded' = yielded)]_vars

\* C7: a page response without parsable pagination metadata ends the
\* sequence without an error.
C7_BadPageIsTerminal ==
    (Len(sent) >= 2 /\ replies[Len(replies)] # "ok") => last = "stop"

\* a call on a live cursor sends a request only when it finds the queue
\* empty, and then a single one
LazyFetch ==
    (it = "live" /\ sent' # sent)
        => (current = <<>> /\ Len(sent') = Len(sent) + 1
              /\ SubSeq(sent', 1, Len(sent)) = sent)

\* C23 as stated: a page request is sent only by a call that finds the queue
\* empty, one per call at most, and no page is requested twice.
C23_LazyNeverTwice ==
    /\ [][LazyFetch]_vars
    /\ [](\A i, j \in 1..Len(sent) :
             i < j => PageOf(sent[i]) # PageOf(sent[j]))

\* C23 amended: a page request is sent only by a call that finds the queue
\* empty, one per call at most; the page requested is the page of the
\* request before it plus one when that request was answered with a zone
\* list, and the same page again when its fetch failed.
C23_LazyRepeatsOnlyFailed ==
    /\ [][LazyFetch]_vars
    /\ [](\A i \in 1..(Len(sent) - 1) :
             PageOf(sent[i + 1]) = IF replies[i] = "ok"
                                   THEN PageOf(sent[i]) + 1
                                   ELSE PageOf(sent[i]))

C23_Witness ==
    /\ Len(sent) >= 3
    /\ replies[2] # "ok"
    /\ PageOf(sent[3]) = PageOf(sent[2])
    /\ PageOf(sent[2]) = PageOf(sent[1]) + 1

\* C24: every follow-up request has the method and the path of the request
\* before it, and with a base_url set on the client its path is the path of
\* the base_url, once, followed by the path of the list endpoint.
C24_SameMethodAndPath ==
    \A i \in 2..Len(sent) :
       /\ sent[i].method = sent[i - 1].method
       /\ sent[i].url.origin = sent[i - 1].url.origin
       /\ sent[i].url.path = sent[i - 1].url.path
       /\ client.base_url.set =>
             sent[i].url.path = client.base_url.path \o <<"zones">>

\* C25: against an endpoint that reports the requested page as page and a
\* fixed last_page = ceil(N / P), no more than max(last_page, 1) requests
\* are sent, however long the consumer keeps calling.
C25_RequestsBounded ==
    Paged => Len(sent) <= Max(Ceil(srv.N, srv.P), 1)

IsSuffix(s, t) ==
    Len(s) <= Len(t) /\ SubSeq(t, Len(t) - Len(s) + 1, Len(t)) = s

\* C26: a call whose fetch raises (the send fails or the body is no zone
\* list) leaves the queue and the stored response as they were, and the
\* queue always holds the zones of the stored response not yet returned.
C26_FailedAdvanceKeepsCursor ==
    /\ [][(it = "live" /\ Len(sent') > Len(sent) /\ last' \in Errors)
            => (response' = response /\ current' = current)]_vars
    /\ [](it = "live" => IsSuffix(current, extract_content(response.body)))

C26_Witness ==
    /\ it = "live"
    /\ Len(sent) = 3
    /\ replies = <<"ok", "mismatch", "transport">>
    /\ last = "TransportError"
    /\ response.request = sent[1]

(***************************************************************************)
(* Properties of the timestamp codec.                                      *)
(***************************************************************************)
\* the value came from a caller and went through enc_hook and dec_hook
RoundTripped(kind) == cpc = "decoded" /\ arg.kind = kind

\* C8: decoding the encoding of Unverified gives Unverified, and decoding the
\* encoding of Verified(t) gives a verified value carrying a timestamp equal
\* to t.
C8_VerifiedRoundTrip ==
    RoundTripped("VerifiedTime") =>
        /\ out.kind = "VerifiedTime"
        /\ out.verified = arg.verified
        /\ (out.timestamp = <<>>) = (arg.timestamp = <<>>)
        /\ (arg.timestamp # <<>> =>
              datetime_eq(out.timestamp[1], arg.timestamp[1]))

\* C9: a VerifiedTime, constructed or decoded, is verified exactly when it
\* has a timestamp.
C9_VerifiedIffTimestamp ==
    \A v \in {obj, out} :
        v.kind = "VerifiedTime" => (v.verified <=> v.timestamp # <<>>)

\* C10: decoding the encoding of a timestamp with an explicit offset and
\* whole milliseconds gives an equal timestamp.
C10_TimestampRoundTrip ==
    (/\ RoundTripped("HetznerTime")
     /\ arg.timestamp[1].tz.aware
     /\ arg.timestamp[1].microsecond % 1000 = 0)
        => (out.kind = "HetznerTime"
            /\ datetime_eq(out.timestamp[1], arg.timestamp[1]))

\* the digits strftime put between the "." and the blank before the offset
FractionLen(text) == Run(text, Len(DatePrefix) + 4, Digits, Len(text))

\* C11: an encoded timestamp has exactly 3 fraction digits.
C11_ThreeFractionDigits ==
    (cpc = "encoded" /\ wire # <<>>) => FractionLen(wire) = 3

\* a text that cannot be a timestamp of the layout: the sample that is no
\* timestamp, a text that ends in a blank (no zone name), and the empty text
\* where a HetznerTime is expected
Malformed ==
    \/ wire = NotATimestamp
    \/ (wire # <<>> /\ wire[Len(wire)] = " ")
    \/ (typ = "HetznerTime" /\ wire = <<>>)

\* C12: decoding a text that does not match the layout raises (ValueError,
\* which msgspec reports as a validation error) for HetznerTime and for
\* VerifiedTime alike, and yields no value.
C12_MalformedRaises ==
    (cpc = "decoded" /\ Malformed) => out = ValueError

C12_Witness ==
    /\ cpc = "decoded"
    /\ typ = "VerifiedTime"
    /\ wire = NotATimestamp
    /\ out = ValueError

\* DnsZone.all(name, search) was called and sent its list request
Listed == gen \notin {"unused", "created"}

\* a name was passed: neither None nor the empty text
Named == args.name \notin {<<>>, <<<<>>>>}

\* C17: the list request of DnsZone.all carries only name for a name with
\* search = false, only search_name for a name with search = true, and no
\* filter without a name; no request carries both filters.
C17_FilterSelection ==
    Listed =>
       LET query == sent[1].url.params
       IN /\ (Named /\ ~args.search) =>
               (DOMAIN query = {"name"} /\ query["name"] = args.name[1])
          /\ (Named /\ args.search) =>
               (DOMAIN query = {"search_name"}
                  /\ query["search_name"] = args.name[1])
          /\ ~Named => DOMAIN query = {}
          /\ \A i \in DOMAIN sent :
                ~({"name", "search_name"} \subseteq DOMAIN sent[i].url.params)

C17_Witness ==
    /\ Listed
    /\ args = [name |-> <<Foo>>, search |-> TRUE]
    /\ DOMAIN sent[1].url.params = {"search_name"}

(***************************************************************************)
(* Properties of the entity views.                                         *)
(***************************************************************************)
Done(view, ops) == vpc = "done" /\ call.view = view /\ call.op \in ops

\* the body is JSON but lacks a field the type requires
Mismatch(text, type) == text.json /\ ~(Required(type) \subseteq text.fields)

Decodes(text, type) == text.json /\ Required(type) \subseteq text.fields

\* C13: decoding a payload against an envelope shape it does not match
\* raises the library's error with the pretty-printed JSON in its message,
\* for every shape passed to decode_object.
C13_MismatchCarriesJson ==
    (Done("decoding", {"decode_object"})
        /\ Mismatch(answer[1].payload, call.id))
    => (result.raised = "HetznerApiError" /\ result.pretty_json)

StatusErrors == {"HetznerApiNotFoundError", "AuthorizationFailedError",
                 "HetznerApiError"}

\* the outcome r is the one the status of the answer a maps to
StatusMapped(r, a) ==
    /\ a.status = 404 => r.raised = "HetznerApiNotFoundError"
    /\ a.status = 401 => r.raised = "AuthorizationFailedError"
    /\ a.status \notin {200, 201, 204, 401, 404} =>
           /\ r.raised = "HetznerApiError"
           /\ r.status = a.status
           /\ r.text = <<a.payload>>
    /\ a.status \in {200, 201, 204} => r.raised \notin StatusErrors

\* C14: zone get and record get map the status of the response: 404 to the
\* not-found error, 401 to the authorization error, any other status outside
\* {200, 201, 204} to the generic error with status and body, and a status
\* in {200, 201, 204} to none of the three.
C14_GetMapsStatus ==
    (Done("DnsZone", {"get"}) \/ Done("DnsRecord", {"get"}))
    => StatusMapped(result, answer[1])

\* the server answered 200 with the envelope of the type
Ok200(type) ==
    /\ answer[1].status = 200
    /\ answer[1].payload.fields = Required(type)

\* the record type passed to create / update is a creatable one
ValidType == call.op \in {"create", "update"} => call.name[2] \in RecordTypeCreatable

\* C15: against a server answering 200 with a single-record envelope,
\* DnsRecord.get / create / update return the record of the envelope,
\* delete returns, and all yields the records of a record-list envelope in
\* order.
C15_RecordCallsReturn ==
    /\ (Done("DnsRecord", {"get", "create", "update"}) /\ ValidType
           /\ Ok200("DnsRecordItemResponse"))
       => result = Returned(<<answer[1].payload.list[1]>>)
    /\ (Done("DnsRecord", {"delete"}) /\ answer[1].status = 200)
       => result.raised = "none"
    /\ (Done("DnsRecord", {"all"}) /\ Ok200("DnsRecordListResponse"))
       => result = Returned(answer[1].payload.list)

Submitted ==
    Done("DnsBulkCreateRecord", {"submit"})
    \/ Done("DnsBulkUpdateRecord", {"submit"})

\* C16: submit sends one request whose body is the list of the entries
\* added, in order, and for a 2xx response with the bulk envelope returns
\* the decoded result, failed entries included.
C16_SubmitSendsAllOnce ==
    Submitted =>
       /\ Len(http) = 1
       /\ http[1].content = pending
       /\ (answer[1].status \in {200, 201, 204}
             /\ Decodes(answer[1].payload,
                        IF call.view = "DnsBulkCreateRecord"
                        THEN "DnsBulkRecordCreateResponse"
                        ELSE "DnsBulkRecordUpdateResponse"))
          => result = Returned(<<answer[1].payload>>)

\* C18: get_id sends one GET of the zone list filtered by the exact name
\* and, when the answer is a zone list, returns the id of its first zone,
\* or None when it has no zone.
C18_GetIdFirstOrNone ==
    Done("DnsZone", {"get_id"}) =>
       /\ Len(http) = 1
       /\ http[1].method = "GET"
       /\ http[1].url.path = ApiPrefix \o <<"zones">>
       /\ http[1].url.params = [k \in {"name"} |-> call.name]
       /\ Decodes(answer[1].payload, "DnsZoneListResponse") =>
            result = Returned(IF answer[1].payload.list = <<>> THEN <<>>
                              ELSE <<answer[1].payload.list[1]>>)

C18_Witness ==
    /\ Done("DnsZone", {"get_id"})
    /\ Decodes(answer[1].payload, "DnsZoneListResponse")
    /\ answer[1].payload.list = <<"z2", "z1">>
    /\ result = Returned(<<"z2">>)

\* C19: every call of a non-list operation sends exactly one request.
C19_OneRequestPerCall ==
    (\/ Done("DnsZone", {"get", "create", "update", "delete", "import_zone",
                         "export_zone", "validate_zone", "count"})
     \/ (Done("DnsRecord", {"get", "create", "update", "delete"})
           /\ ValidType)
     \/ Submitted)
    => Len(http) = 1

\* the paths of the HTTP surface, below the path of the base url
Surface ==
    {<<"zones">>, <<"records">>, <<"records", "bulk">>}
    \cup {<<"zones", z>> : z \in ZoneIds}
    \cup {<<"zones", z, "export">> : z \in ZoneIds}
    \cup {<<"zones", z, "validate">> : z \in ZoneIds}
    \cup {<<"records", r>> : r \in RecordIds}

\* C20: every request of the views goes to a path of the HTTP surface, and
\* zone delete sends DELETE to /zones/{id}.
C20_PathsOfSurface ==
    /\ \A i \in DOMAIN http :
          \E path \in Surface : http[i].url.path = ApiPrefix \o path
    /\ Done("DnsZone", {"delete"}) =>
          /\ http[1].method = "DELETE"
          /\ http[1].url.path = ApiPrefix \o <<"zones", call.id>>

\* C22: the list request of get_id maps the status of the response like the
\* entity operations do: 404 to the not-found error, 401 to the
\* authorization error, any other status outside {200, 201, 204} to the
\* generic error with status and body (the list requests of DnsZone.all and
\* of the cursor are sent and decoded the same way, without a status check).
C22_LookupMapsStatus ==
    Done("DnsZone", {"get_id"}) => StatusMapped(result, answer[1])

(***************************************************************************)
(* Properties of builders and cursors side by side.                        *)
(***************************************************************************)
Builder(j) == [kind |-> "builder", index |-> j]

Cursor(j) == [kind |-> "cursor", index |-> j]

====
